---- MODULE Spec2Model ----
(***************************************************************************)
(* Message delivery, retry and resync flow of the chat screen              *)
(* (app/(tabs)/index.tsx), the backoff policy (utils/backoff) and the      *)
(* network store (stores/networkStore.ts).                                 *)
(*                                                                         *)
(* The screen is modelled from the moment its thread has been loaded (or   *)
(* has failed to load): React state is one variable per useState cell,     *)
(* every async function is a process whose steps are its awaits, and the   *)
(* remote collaborators (database, auth, relay, durable cache, NetInfo)    *)
(* answer nondeterministically.  JS objects are functions from field names *)
(* to values, so that an optional field is a field that may be absent.     *)
(***************************************************************************)
EXTENDS Integers, Sequences, FiniteSets, Bags, TLC

VARIABLES
    messages,       \* useState<Message[]>        index.tsx:75
    currentThread,  \* useState<Thread | null>    index.tsx:76  (<<>> is null)
    input,          \* useState('')               index.tsx:77  (sequence of characters)
    isLoading,      \* useState(false)            index.tsx:78
    error,          \* useState<string | null>    index.tsx:79  (<<>> is null)
    now,            \* the value Date.now() last returned
    sends,          \* the sendMessage invocations in flight (a bag)
    chains,         \* the retryMessage chains in flight (a bag)
    passes,         \* the syncPendingMessages invocations in flight (a bag), but for
                    \* those that await a chain, which the chain holds
    pendingCache,   \* the pending_message_ entries of the durable cache
    isOnline,       \* networkStore.ts:10
    subscribed,     \* the NetInfo listener of networkStore.ts:18 is installed
    attemptIn,      \* a pair of arguments of getBackoffDelay under BackoffSpec
    delayOut,       \* <<>> or the pair of results of getBackoffDelay
    store,          \* the state of useMessagesStore   messagesStore.ts:24-26
    snapshots,      \* the cached_messages entries of the durable cache
    syncs           \* the syncMessages invocations in flight (a bag)

vars == <<messages, currentThread, input, isLoading, error, now, sends, chains,
          passes, pendingCache, isOnline, subscribed, attemptIn, delayOut,
          store, snapshots, syncs>>

screenVars == <<messages, currentThread, input, isLoading, error, now, sends, chains,
                passes, pendingCache, isOnline, subscribed>>

backoffVars == <<attemptIn, delayOut>>

storeVars == <<store, snapshots, syncs>>

-----------------------------------------------------------------------------
(* Bounds of the model *)

MaxSends == 1       \* sendMessage invocations that pass the guard
MaxChains == 1      \* retryMessage chains in flight at the same time
MaxPasses == 1      \* syncPendingMessages invocations in flight at the same time
MaxAttemptArg == 10 \* largest argument given to getBackoffDelay under BackoffSpec
MaxSyncs == 1       \* syncMessages invocations in flight at the same time
MaxStoreLen == 2    \* length up to which addMessage extends the store's lists

-----------------------------------------------------------------------------
(* JS values *)

Null == <<>>

Some(v) == <<v>>

Has(o, k) == k \in DOMAIN o

\* { ...o, ...upd }
Spread(o, upd) == [k \in DOMAIN o \cup DOMAIN upd |-> IF k \in DOMAIN upd THEN upd[k] ELSE o[k]]

\* o.k used as a condition, for a boolean-valued optional field
Truthy(o, k) == Has(o, k) /\ o[k]

Min(a, b) == IF a <= b THEN a ELSE b

RECURSIVE MathPow(_, _)
MathPow(b, e) == IF e = 0 THEN 1 ELSE b * MathPow(b, e - 1)

RECURSIVE TrimStart(_)
TrimStart(s) == IF s # <<>> /\ Head(s) = " " THEN TrimStart(Tail(s)) ELSE s

RECURSIVE TrimEnd(_)
TrimEnd(s) == IF s # <<>> /\ s[Len(s)] = " " THEN TrimEnd(SubSeq(s, 1, Len(s) - 1)) ELSE s

\* String.prototype.trim
Trim(s) == TrimEnd(TrimStart(s))

\* the string that a sequence of characters spells
RECURSIVE Text(_)
Text(chars) == IF chars = <<>> THEN "" ELSE Head(chars) \o Text(Tail(chars))

-----------------------------------------------------------------------------
(* utils/backoff *)

INITIAL_RETRY_DELAY == 2000

CapDelay == 30000

\* a backoff without its cap
UncappedDelay(attempt) == INITIAL_RETRY_DELAY * MathPow(2, attempt)

\* part_000:71-73
getBackoffDelay(attempt) == Min(INITIAL_RETRY_DELAY * MathPow(2, attempt), CapDelay)

\* the bound of retryMessage, index.tsx:666
RetryLimit == 4

\* a bound that lets one more attempt through
RetryStopsLate(attempt) == attempt > RetryLimit

\* index.tsx:666: if (attempt >= 4)
RetryStops(attempt) == attempt >= RetryLimit

-----------------------------------------------------------------------------
(* The environment's answers *)

Thread1 == [id |-> "t1", title |-> "New Chat"]

\* what the user can have typed into the TextInput
Inputs == { <<>>, <<" ">>, <<" ", "a", " ">> }

\* { data, error } of a supabase insert; isError tells whether the error object
\* is an instance of Error (it depends on the client library's version)
InsertResults ==
    { [failed |-> FALSE] } \cup
    { [failed |-> TRUE, message |-> "db down", isError |-> b] : b \in BOOLEAN }

\* supabase.auth.getSession(): a session or null
SessionResults == { Some([access_token |-> "tok"]), Null }

\* a response body: text that is no JSON, or the JSON value it parses to
NotJson == [json |-> FALSE]

Json(v) == [json |-> TRUE, value |-> v]

Choice(c) == <<[message |-> [content |-> c]]>>

ErrorBodies ==
    { NotJson, Json(<<>>), Json([message |-> ""]), Json([message |-> "rate limited"]) }

OkBodies ==
    { NotJson, Json(<<>>), Json([choices |-> <<>>]),
      Json([choices |-> <<[message |-> <<>>]>>]),
      Json([choices |-> Choice("")]), Json([choices |-> Choice("reply")]) }

\* the outcome of fetch(relay): it throws, or it resolves to a response
RelayResults ==
    { [message |-> "Network request failed", threw |-> TRUE] } \cup
    { [threw |-> FALSE, ok |-> FALSE, status |-> 500, body |-> b] : b \in ErrorBodies } \cup
    { [threw |-> FALSE, ok |-> TRUE, status |-> 200, body |-> b] : b \in OkBodies }

\* entries other writers have left under pending_message_ keys
QueuedPool ==
    { [id |-> "q1", content |-> "q", role |-> "user", thread_id |-> "t1",
       pending |-> TRUE] }

-----------------------------------------------------------------------------
(* Messages *)

WelcomeMessage(thread) ==
    [id |-> "welcome", content |-> "Hello", role |-> "assistant",
     thread_id |-> thread.id, created_at |-> 0]

\* Date.now(): the clock never runs backwards
DateNowValues == { now, now + 1 }

\* index.tsx:301-307
NewUserMessage(t, text, thread) ==
    [id |-> ToString(t), content |-> text, role |-> "user",
     thread_id |-> thread.id, created_at |-> t]

\* an assistant message that drops the relay's text
AssistantMessageWithoutText(t, text, thread) ==
    [id |-> ToString(t), content |-> "", role |-> "assistant",
     thread_id |-> thread.id, created_at |-> t]

\* index.tsx:399-405
NewAssistantMessage(t, text, thread) ==
    [id |-> ToString(t), content |-> text, role |-> "assistant",
     thread_id |-> thread.id, created_at |-> t]

\* a new message put in front of the list
PrependMessage(list, message) == <<message>> \o list

\* index.tsx:310, 399: [...currentMessages, message]
AppendMessage(list, message) == Append(list, message)

\* prev.map(msg => msg.id === id ? { ...msg, ...upd } : msg)
UpdateEvery(list, id, upd) == [i \in 1..Len(list) |-> Spread(list[i], upd)]

UpdateById(list, id, upd) ==
    [i \in 1..Len(list) |-> IF list[i].id = id THEN Spread(list[i], upd) ELSE list[i]]

\* a catch that leaves the list as it is
LeaveAsSent(list, id) == list

\* index.tsx:412-414
MarkSendFailed(list, id) == UpdateById(list, id, [failed |-> TRUE, pending |-> FALSE])

\* a terminal update that forgets to clear pending
MarkRetryExhaustedPending(list, id, attempt) ==
    UpdateById(list, id, [failed |-> TRUE, pending |-> TRUE, retryCount |-> attempt])

\* index.tsx:668-672
MarkRetryExhausted(list, id, attempt) ==
    UpdateById(list, id, [failed |-> TRUE, pending |-> FALSE, retryCount |-> attempt])

\* a delivery that counts the attempt from one
MarkRetryDeliveredFromOne(list, id, attempt) ==
    UpdateById(list, id, [failed |-> FALSE, pending |-> FALSE, retryCount |-> attempt + 1])

\* index.tsx:731-735
MarkRetryDelivered(list, id, attempt) ==
    UpdateById(list, id, [failed |-> FALSE, pending |-> FALSE, retryCount |-> attempt])

\* the records of the calls an invocation has issued
InsertCall(role, content) == [content |-> content, role |-> role, op |-> "insert"]

SessionCall == [op |-> "getSession"]

RelayCall == [op |-> "relay"]

\* bags of invocations
One(e) == SetToBag({e})

Without(bag, e) == bag (-) One(e)

Replaced(bag, e, f) == (bag (-) One(e)) (+) One(f)

-----------------------------------------------------------------------------
(* sendMessage, index.tsx:293-418 *)

Thrown(message, isError) == [message |-> message, isError |-> isError]

\* index.tsx:325
UserInsertError(res) == Thrown("Failed to save user message: " \o res.message, TRUE)

\* index.tsx:366: response.json().catch(() => ({}))
ErrorData(body) == IF body.json THEN body.value ELSE <<>>

\* an error text that ignores the body
StatusMessage(resp) == "AI request failed with status " \o ToString(resp.status)

\* index.tsx:368: errorData.message || `AI request failed with status ${status}`
SendRelayErrorMessage(resp) ==
    LET errorData == ErrorData(resp.body)
    IN  IF Has(errorData, "message") /\ errorData.message # ""
        THEN errorData.message
        ELSE "AI request failed with status " \o ToString(resp.status)

\* aiResponse.choices?.[0]?.message?.content, Null when undefined
OptionalContent(v) ==
    IF ~Has(v, "choices") THEN Null
    ELSE IF Len(v.choices) = 0 THEN Null
    ELSE IF ~Has(v.choices[1], "message") THEN Null
    ELSE IF ~Has(v.choices[1].message, "content") THEN Null
    ELSE Some(v.choices[1].message.content)

\* index.tsx:339-382: what the relay's answer makes of the try block, either
\* the assistant's text or the value thrown
SendRelayOutcome(resp) ==
    IF resp.threw THEN [thrown |-> Some(Thrown(resp.message, TRUE))]
    ELSE IF ~resp.ok THEN [thrown |-> Some(Thrown(SendRelayErrorMessage(resp), TRUE))]
    ELSE IF ~resp.body.json THEN [thrown |-> Some(Thrown("JSON Parse error", TRUE))]
    ELSE LET content == OptionalContent(resp.body.value)
         IN  IF content = Null \/ content[1] = ""
             THEN [thrown |-> Some(Thrown("Invalid AI response format", TRUE))]
             ELSE [content |-> content[1], thrown |-> Null]

\* index.tsx:409
CatchMessage(thrown) == IF thrown.isError THEN thrown.message ELSE "Failed to send message"

\* a guard that tests the input as typed
SendGuardUntrimmed == input # <<>> /\ ~isLoading /\ currentThread # Null

\* index.tsx:294
SendGuard == Trim(input) # <<>> /\ ~isLoading /\ currentThread # Null

UserMessages == { i \in 1..Len(messages) : messages[i].role = "user" }

\* index.tsx:350-357: an entry of the messages array of a relay request
WireMessage(role, content) == [content |-> content, role |-> role]

\* index.tsx:354-357: the role and the content of each message of a list
Transcript(list) ==
    [i \in 1..Len(list) |-> WireMessage(list[i].role, list[i].content)]

\* a send that writes the user message twice
SendInsertingTwice(newMessage, thread) ==
    [thread |-> thread, newMessage |-> newMessage, pc |-> "insertUser", reply |-> "",
     history |-> Transcript(messages), request |-> Null,
     calls |-> <<InsertCall("user", newMessage.content),
                 InsertCall("user", newMessage.content)>>]

\* index.tsx:296-323: a send that has appended its message and called the insert;
\* history is what the relay request reads (355-358) of the messages of its
\* closure, the list of the render that made the handler, which does not hold
\* the message appended at 310
SendAtFirstAwait(newMessage, thread) ==
    [thread |-> thread, newMessage |-> newMessage, pc |-> "insertUser", reply |-> "",
     history |-> Transcript(messages), request |-> Null,
     calls |-> <<InsertCall("user", newMessage.content)>>]

\* a send that shows its message only once the exchange is over
SendMessageShownLater(t) ==
    /\ t \in DateNowValues
    /\ SendGuard
    /\ sends' = sends (+) One(SendAtFirstAwait(
                     NewUserMessage(t, Text(Trim(input)), currentThread[1]),
                     currentThread[1]))
    /\ input' = <<>>
    /\ isLoading' = TRUE
    /\ now' = t
    /\ UNCHANGED <<messages, currentThread, error, chains, passes, pendingCache, isOnline,
                   subscribed, attemptIn, delayOut, store, snapshots, syncs>>

\* index.tsx:86, 352: the active system prompt the screen has fetched
SystemPrompt == "system prompt"

\* a request that carries the system instruction only
RelayBodyWithoutHistory(snd) ==
    [messages |-> <<WireMessage("system", SystemPrompt)>>,
     provider |-> "openai", model |-> "chatgpt-4o-latest",
     prompt |-> snd.newMessage.content]

\* index.tsx:345-359: the body of the relay request of a send
SendRelayBody(snd) ==
    [messages |-> <<WireMessage("system", SystemPrompt)>> \o snd.history,
     provider |-> "openai", model |-> "chatgpt-4o-latest",
     prompt |-> snd.newMessage.content]

\* index.tsx:293-323: the early return, or the optimistic append and the first insert
SendMessage(t) ==
    /\ t \in DateNowValues
    /\ IF ~SendGuard
       THEN t = now /\ UNCHANGED vars
       ELSE /\ LET newMessage == NewUserMessage(t, Text(Trim(input)), currentThread[1])
               IN  /\ messages' = AppendMessage(messages, newMessage)
                   /\ sends' = sends (+) One(SendAtFirstAwait(newMessage, currentThread[1]))
            /\ input' = <<>>
            /\ isLoading' = TRUE
            /\ now' = t
            /\ UNCHANGED <<currentThread, error, chains, passes, pendingCache, isOnline,
                           subscribed, attemptIn, delayOut,
                           store, snapshots, syncs>>

\* index.tsx:407-417: catch and finally
SendCatch(snd, thrown) ==
    /\ error' = Some(CatchMessage(thrown))
    /\ messages' = MarkSendFailed(messages, snd.newMessage.id)
    /\ isLoading' = FALSE
    /\ sends' = Without(sends, snd)
    /\ UNCHANGED <<currentThread, input, now, chains, passes, pendingCache, isOnline,
                   subscribed, attemptIn, delayOut,
                   store, snapshots, syncs>>

\* a send goes on to its next await
SendGoesOn(snd, next) ==
    /\ sends' = Replaced(sends, snd, next)
    /\ UNCHANGED <<messages, currentThread, input, isLoading, error, now, chains, passes,
                   pendingCache, isOnline, subscribed, attemptIn, delayOut,
                   store, snapshots, syncs>>

\* index.tsx:314-328: the insert of the user message returns
SendUserInsertReturns(snd, res) ==
    /\ BagIn(snd, sends)
    /\ snd.pc = "insertUser"
    /\ res \in InsertResults
    /\ IF res.failed
       THEN SendCatch(snd, UserInsertError(res))
       ELSE SendGoesOn(snd, [snd EXCEPT !.pc = "getSession",
                                        !.calls = Append(@, SessionCall)])

\* index.tsx:328-360: getSession returns
SendSessionReturns(snd, res) ==
    /\ BagIn(snd, sends)
    /\ snd.pc = "getSession"
    /\ res \in SessionResults
    /\ IF res = Null
       THEN SendCatch(snd, Thrown("No active session", TRUE))
       ELSE SendGoesOn(snd, [snd EXCEPT !.pc = "relay", !.calls = Append(@, RelayCall),
                                        !.request = Some(SendRelayBody(snd))])

\* index.tsx:339-394: the relay answers
SendRelayReturns(snd, resp) ==
    /\ BagIn(snd, sends)
    /\ snd.pc = "relay"
    /\ resp \in RelayResults
    /\ LET outcome == SendRelayOutcome(resp)
       IN  IF outcome.thrown # Null
           THEN SendCatch(snd, outcome.thrown[1])
           ELSE SendGoesOn(snd, [snd EXCEPT
                    !.pc = "insertAssistant",
                    !.reply = outcome.content,
                    !.calls = Append(@, InsertCall("assistant", outcome.content))])

\* index.tsx:385-405, 415-417: the insert of the assistant message returns
SendAssistantInsertReturns(snd, res) ==
    /\ BagIn(snd, sends)
    /\ snd.pc = "insertAssistant"
    /\ res \in InsertResults
    /\ IF res.failed
       THEN SendCatch(snd, Thrown(res.message, res.isError))
       ELSE /\ \E t \in DateNowValues :
                /\ messages' = AppendMessage(messages,
                       NewAssistantMessage(t, snd.reply, snd.thread))
                /\ now' = t
            /\ isLoading' = FALSE
            /\ sends' = Without(sends, snd)
            /\ UNCHANGED <<currentThread, input, error, chains, passes, pendingCache,
                           isOnline, subscribed, attemptIn, delayOut,
                           store, snapshots, syncs>>

\* index.tsx:853, 857: onChangeText of the TextInput, editable while not loading
SetInput(text) ==
    /\ text \in Inputs
    /\ ~isLoading
    /\ text # input
    /\ input' = text
    /\ UNCHANGED <<messages, currentThread, isLoading, error, now, sends, chains, passes,
                   pendingCache, isOnline, subscribed, attemptIn, delayOut,
                   store, snapshots, syncs>>

-----------------------------------------------------------------------------
(* retryMessage, index.tsx:665-744 *)

\* index.tsx:710-716: whether the relay's answer makes the try block throw.
\* A non-2xx answer always does; a 2xx answer does when it is no JSON or when
\* choices[0].message is missing (a missing content is read as undefined)
RetryRelayThrows(resp) ==
    \/ resp.threw
    \/ ~resp.ok
    \/ ~resp.body.json
    \/ ~Has(resp.body.value, "choices")
    \/ Len(resp.body.value.choices) = 0
    \/ ~Has(resp.body.value.choices[1], "message")

\* index.tsx:685-728: the try block of one attempt from getSession on, given
\* the answers of getSession, of the relay and of the insert: the calls it
\* issues, in order, and whether it throws.  Between these awaits the code
\* reads and writes nothing but its own locals.
RetryTryBlock(message, sres, resp, ires) ==
    IF sres = Null
    THEN [threw |-> TRUE, calls |-> <<SessionCall>>]
    ELSE IF RetryRelayThrows(resp)
    THEN [threw |-> TRUE, calls |-> <<SessionCall, RelayCall>>]
    ELSE [threw |-> ires.failed,
          calls |-> <<SessionCall, RelayCall, InsertCall(message.role, message.content)>>]

\* what the try block of an attempt can come to, over all the answers
RetryOutcomes(message) ==
    { RetryTryBlock(message, sres, resp, ires) :
        sres \in SessionResults, resp \in RelayResults, ires \in InsertResults }

\* the fields of its argument that retryMessage reads (index.tsx:669, 722-725, 732)
RetryArgument(message) ==
    [id |-> message.id, content |-> message.content, role |-> message.role,
     thread_id |-> message.thread_id]

\* a chain that sleeps for the delay of the attempt before
ChainWithEarlierDelay(message, attempt, awaiter) ==
    IF attempt > 0
    THEN [attempt |-> attempt, message |-> message, pc |-> "sleep",
          awaiter |-> awaiter, ms |-> getBackoffDelay(attempt - 1)]
    ELSE [attempt |-> attempt, message |-> message, pc |-> "attempt",
          awaiter |-> awaiter, ms |-> 0]

\* index.tsx:676-685: the chain once retryMessage(message, attempt), attempt < 4,
\* has run to its first await: the sleep, or getSession when attempt is 0.
\* awaiter is the syncPendingMessages pass that awaits the chain, or Null
ChainAtFirstAwait(message, attempt, awaiter) ==
    IF attempt > 0
    THEN [attempt |-> attempt, message |-> message, pc |-> "sleep",
          awaiter |-> awaiter, ms |-> getBackoffDelay(attempt)]
    ELSE [attempt |-> attempt, message |-> message, pc |-> "attempt",
          awaiter |-> awaiter, ms |-> 0]

\* the promise of a chain settles: the pass that awaits it goes on to
\* removeItem (index.tsx:761)
PassesAfterChain(ch) ==
    IF ch.awaiter = Null THEN passes
    ELSE passes (+) One([ch.awaiter[1] EXCEPT !.pc = "removeItem"])

\* index.tsx:665-685 with attempt = 0: the state updates of a first invocation
RetryInvoke(message, awaiter) ==
    /\ BagCardinality(chains) < MaxChains
    /\ isLoading' = TRUE
    /\ error' = Null
    /\ chains' = chains (+) One(ChainAtFirstAwait(RetryArgument(message), 0, awaiter))

\* index.tsx:597-607: the Retry button of a message rendered as failed
RetryPressed(i) ==
    /\ i \in 1..Len(messages)
    /\ Truthy(messages[i], "failed")
    /\ RetryInvoke(messages[i], Null)
    /\ UNCHANGED <<messages, currentThread, input, now, sends, passes, pendingCache,
                   isOnline, subscribed, attemptIn, delayOut,
                   store, snapshots, syncs>>

\* a catch that shows the failure of every attempt
RetryCatchShowingError(ch) ==
    LET next == ch.attempt + 1
    IN  /\ error' = Some("Message failed after multiple attempts")
        /\ IF RetryStops(next)
           THEN /\ messages' = MarkRetryExhausted(messages, ch.message.id, next)
                /\ chains' = Without(chains, ch)
                /\ passes' = PassesAfterChain(ch)
           ELSE /\ messages' = messages
                /\ chains' = Replaced(chains, ch,
                                      ChainAtFirstAwait(ch.message, next, ch.awaiter))
                /\ passes' = passes
        /\ isLoading' = FALSE
        /\ UNCHANGED <<currentThread, input, now, sends, pendingCache, isOnline,
                       subscribed, attemptIn, delayOut,
                       store, snapshots, syncs>>

\* index.tsx:737-743 and 666-683: catch calls retryMessage(message, attempt + 1),
\* which runs to its return (attempt + 1 >= 4) or to its sleep, and then
\* finally runs
RetryCatch(ch) ==
    LET next == ch.attempt + 1
    IN  /\ IF RetryStops(next)
           THEN /\ error' = Some("Message failed after multiple attempts")
                /\ messages' = MarkRetryExhausted(messages, ch.message.id, next)
                /\ chains' = Without(chains, ch)
                /\ passes' = PassesAfterChain(ch)
           ELSE /\ error' = Null
                /\ messages' = messages
                /\ chains' = Replaced(chains, ch,
                                      ChainAtFirstAwait(ch.message, next, ch.awaiter))
                /\ passes' = passes
        /\ isLoading' = FALSE
        /\ UNCHANGED <<currentThread, input, now, sends, pendingCache, isOnline,
                       subscribed, attemptIn, delayOut,
                       store, snapshots, syncs>>

\* a sleep whose promise is never resolved
SleepNeverReturns(ch) ==
    /\ BagIn(ch, chains)
    /\ ch.pc = "never"
    /\ UNCHANGED vars

\* index.tsx:682-685: the backoff sleep ends, getSession is called
RetrySleepReturns(ch) ==
    /\ BagIn(ch, chains)
    /\ ch.pc = "sleep"
    /\ chains' = Replaced(chains, ch, [ch EXCEPT !.pc = "attempt"])
    /\ UNCHANGED <<messages, currentThread, input, isLoading, error, now, sends, passes,
                   pendingCache, isOnline, subscribed, attemptIn, delayOut,
                   store, snapshots, syncs>>

\* index.tsx:685-743: the attempt's remote calls have answered; the chain is
\* delivered, or catch retries
RetryAttemptSettles(ch, outcome) ==
    /\ BagIn(ch, chains)
    /\ ch.pc = "attempt"
    /\ IF outcome.threw
       THEN RetryCatch(ch)
       ELSE /\ messages' = MarkRetryDelivered(messages, ch.message.id, ch.attempt)
            /\ isLoading' = FALSE
            /\ chains' = Without(chains, ch)
            /\ passes' = PassesAfterChain(ch)
            /\ UNCHANGED <<currentThread, input, error, now, sends, pendingCache,
                           isOnline, subscribed, attemptIn, delayOut,
                           store, snapshots, syncs>>
    /\ outcome \in RetryOutcomes(ch.message)

-----------------------------------------------------------------------------
(* syncPendingMessages, index.tsx:746-766 *)

\* index.tsx:747-755: a pass that has called getAllKeys; cause tells which run
\* of the effect started it, the one at mount or one after isOnline changed
NewPass(cause) == [pc |-> "getAllKeys", cause |-> cause, keys |-> {}, key |-> ""]

\* the key of a queued message: pending_message_<id>
PendingKey(m) == "pending_message_" \o m.id

\* the passes in flight, those that await a chain included
PassesInFlight ==
    BagCardinality(passes)
    + BagCardinality([ch \in { c \in BagToSet(chains) : c.awaiter # Null } |-> chains[ch]])

\* index.tsx:755-758: getAllKeys returns; the pending_message_ keys are kept
SyncKeysReturn(pass) ==
    /\ BagIn(pass, passes)
    /\ pass.pc = "getAllKeys"
    /\ LET pendingKeys == { PendingKey(m) : m \in pendingCache }
       IN  passes' = IF pendingKeys = {} THEN Without(passes, pass)
                     ELSE Replaced(passes, pass,
                                   [pass EXCEPT !.keys = pendingKeys, !.pc = "getItem"])
    /\ UNCHANGED <<messages, currentThread, input, isLoading, error, now, sends, chains,
                   pendingCache, isOnline, subscribed, attemptIn, delayOut,
                   store, snapshots, syncs>>

\* index.tsx:759-760: getItem(key) returns; JSON.parse('') of a missing item
\* throws and ends the pass, otherwise retryMessage(message) is called and awaited
SyncItemReturns(pass, k) ==
    /\ BagIn(pass, passes)
    /\ pass.pc = "getItem"
    /\ k \in pass.keys
    /\ passes' = Without(passes, pass)
    /\ LET items == { m \in pendingCache : PendingKey(m) = k }
       IN  IF items = {}
           THEN UNCHANGED <<isLoading, error, chains>>
           ELSE \E m \in items :
                    RetryInvoke(m, Some([pass EXCEPT !.pc = "retry", !.key = k]))
    /\ UNCHANGED <<messages, currentThread, input, now, sends, pendingCache, isOnline,
                   subscribed, attemptIn, delayOut,
                   store, snapshots, syncs>>

\* index.tsx:758-762: removeItem(key) returns, the loop goes on
SyncRemoveReturns(pass) ==
    /\ BagIn(pass, passes)
    /\ pass.pc = "removeItem"
    /\ pendingCache' = { m \in pendingCache : PendingKey(m) # pass.key }
    /\ LET rest == pass.keys \ {pass.key}
       IN  passes' = IF rest = {} THEN Without(passes, pass)
                     ELSE Replaced(passes, pass,
                                   [pass EXCEPT !.keys = rest, !.pc = "getItem"])
    /\ UNCHANGED <<messages, currentThread, input, isLoading, error, now, sends, chains,
                   isOnline, subscribed, attemptIn, delayOut,
                   store, snapshots, syncs>>

-----------------------------------------------------------------------------
(* stores/networkStore.ts *)

\* state.isConnected of a NetInfo notification: true, false or null
ConnectedValues == { Some(TRUE), Some(FALSE), Null }

\* an unknown connectivity taken as offline
NullishFalse(v) == IF v = Null THEN FALSE ELSE v[1]

\* networkStore.ts:19: state.isConnected ?? true
NullishTrue(v) == IF v = Null THEN TRUE ELSE v[1]

\* networkStore.ts:18-20 and index.tsx:747-751: a notification sets isOnline;
\* the screen's effect starts a resync pass when isOnline has become true
NetInfoEvent(c) ==
    /\ subscribed
    /\ c \in ConnectedValues
    /\ isOnline' = NullishTrue(c)
    /\ IF ~isOnline /\ NullishTrue(c)
       THEN /\ PassesInFlight < MaxPasses
            /\ passes' = passes (+) One(NewPass("online"))
       ELSE passes' = passes
    /\ UNCHANGED <<messages, currentThread, input, isLoading, error, now, sends, chains,
                   pendingCache, subscribed, attemptIn, delayOut,
                   store, snapshots, syncs>>

\* networkStore.ts:23-25
Cleanup ==
    /\ subscribed
    /\ subscribed' = FALSE
    /\ UNCHANGED <<messages, currentThread, input, isLoading, error, now, sends, chains,
                   passes, pendingCache, isOnline, attemptIn, delayOut,
                   store, snapshots, syncs>>

-----------------------------------------------------------------------------
(* stores/messagesStore.ts *)

\* messagesStore.ts:25-26
StoreCreated == [messages |-> <<>>, pendingMessages |-> <<>>]

\* the conversations the store is asked to sync
ThreadIds == { "t1", "t2" }

\* a row of the remote messages table
Row(id, threadId) ==
    [id |-> id, content |-> "text of " \o id, role |-> "user",
     thread_id |-> threadId, created_at |-> 0]

\* what the remote table can hold for a thread, ordered by created_at
RemoteLists(threadId) ==
    { <<Row(threadId \o "-1", threadId)>>,
      <<Row(threadId \o "-1", threadId), Row(threadId \o "-2", threadId)>> }

\* messagesStore.ts:53-59: { data, error } of the select
SelectResults(threadId) ==
    { [failed |-> TRUE] } \cup
    { [failed |-> FALSE, data |-> list] : list \in RemoteLists(threadId) }

\* JSON.stringify of a list of plain rows: the text that spells the list
JsonStringify(list) == [text |-> "json", of |-> list]

\* JSON.parse of such a text
JsonParse(item) == item.of

\* messagesStore.ts:31
FixedKey == "cached_messages"

\* messagesStore.ts:47, 62
SnapshotKey(threadId) == "cached_messages_" \o threadId

CacheKeys == { FixedKey } \cup { SnapshotKey(threadId) : threadId \in ThreadIds }

\* a write that goes under the one key of setMessages, whatever the key given
SetItemUnderFixedKey(cache, key, text, accepted) ==
    IF accepted THEN [cache EXCEPT ![FixedKey] = Some(text)] ELSE cache

\* AsyncStorage.setItem(key, text), which the cache accepts or rejects; a
\* rejection is caught and logged (messagesStore.ts:32, 63)
SetItem(cache, key, text, accepted) ==
    IF accepted THEN [cache EXCEPT ![key] = Some(text)] ELSE cache

\* messages that callers hand to addMessage
Drafts ==
    { [id |-> "d1", content |-> "draft", role |-> "user", thread_id |-> "t1",
       pending |-> TRUE, created_at |-> 0],
      [id |-> "d2", content |-> "note", role |-> "user", thread_id |-> "t1",
       created_at |-> 0] }

\* messagesStore.ts:28-33
StoreSetMessages(list, accepted) ==
    /\ list \in RemoteLists("t1")
    /\ accepted \in BOOLEAN
    /\ store' = [store EXCEPT !.messages = list]
    /\ snapshots' = SetItem(snapshots, FixedKey, JsonStringify(list), accepted)
    /\ UNCHANGED <<screenVars, backoffVars, syncs>>

\* messagesStore.ts:35-42
AddMessage(message) ==
    /\ message \in Drafts
    /\ Len(store.messages) < MaxStoreLen
    /\ Len(store.pendingMessages) < MaxStoreLen
    /\ store' = [messages |-> Append(store.messages, message),
                 pendingMessages |-> IF Truthy(message, "pending")
                                     THEN Append(store.pendingMessages, message)
                                     ELSE store.pendingMessages]
    /\ UNCHANGED <<screenVars, backoffVars, snapshots, syncs>>

\* messagesStore.ts:44-47: syncMessages(threadId) is called and awaits getItem
SyncMessages(threadId) ==
    /\ threadId \in ThreadIds
    /\ BagCardinality(syncs) < MaxSyncs
    /\ syncs' = syncs (+) One([pc |-> "getItem", threadId |-> threadId])
    /\ UNCHANGED <<screenVars, backoffVars, store, snapshots>>

\* messagesStore.ts:47-57: getItem returns; a snapshot is restored; the select
\* is issued
SyncCacheReturns(sy) ==
    /\ BagIn(sy, syncs)
    /\ sy.pc = "getItem"
    /\ LET cached == snapshots[SnapshotKey(sy.threadId)]
       IN  store' = IF cached # Null
                    THEN [store EXCEPT !.messages = JsonParse(cached[1])]
                    ELSE store
    /\ syncs' = Replaced(syncs, sy, [sy EXCEPT !.pc = "select"])
    /\ UNCHANGED <<screenVars, backoffVars, snapshots>>

\* a sync that gives up the remote result when the cache rejects the write
SyncRemoteReturnsIfCached(sy, res, accepted) ==
    /\ BagIn(sy, syncs)
    /\ sy.pc = "select"
    /\ res \in SelectResults(sy.threadId)
    /\ accepted \in BOOLEAN
    /\ IF res.failed
       THEN accepted /\ UNCHANGED <<store, snapshots>>
       ELSE /\ store' = IF accepted THEN [store EXCEPT !.messages = res.data] ELSE store
            /\ snapshots' = SetItem(snapshots, SnapshotKey(sy.threadId),
                                    JsonStringify(res.data), accepted)
    /\ syncs' = Without(syncs, sy)
    /\ UNCHANGED <<screenVars, backoffVars>>

\* messagesStore.ts:53-67: the select returns
SyncRemoteReturns(sy, res, accepted) ==
    /\ BagIn(sy, syncs)
    /\ sy.pc = "select"
    /\ res \in SelectResults(sy.threadId)
    /\ accepted \in BOOLEAN
    /\ IF res.failed
       THEN accepted /\ UNCHANGED <<store, snapshots>>
       ELSE /\ store' = [store EXCEPT !.messages = res.data]
            /\ snapshots' = SetItem(snapshots, SnapshotKey(sy.threadId),
                                    JsonStringify(res.data), accepted)
    /\ syncs' = Without(syncs, sy)
    /\ UNCHANGED <<screenVars, backoffVars>>

\* the store as created, nothing cached, no sync in flight
StoreAtRest ==
    /\ store = StoreCreated
    /\ snapshots = [key \in CacheKeys |-> Null]
    /\ syncs = EmptyBag

-----------------------------------------------------------------------------
(* Delivery: sends and retries on the screen, no message queued in the cache *)

\* the screen once its thread is loaded (index.tsx:198-208 puts the welcome
\* message) or has failed to load (index.tsx:238-241)
ScreenLoaded ==
    /\ currentThread \in { Null, Some(Thread1) }
    /\ messages = IF currentThread = Null THEN <<>> ELSE <<WelcomeMessage(Thread1)>>
    /\ error = IF currentThread = Null THEN Some("Failed to load thread") ELSE Null
    /\ input = <<>>
    /\ isLoading = FALSE
    /\ now = 1
    /\ sends = EmptyBag
    /\ chains = EmptyBag
    /\ isOnline = TRUE
    /\ subscribed = TRUE
    /\ attemptIn = <<0, 0>>
    /\ delayOut = <<>>

\* nothing in the repository writes a pending_message_ key: the mount run of
\* the effect of index.tsx:747-751 has found none and ended
Init ==
    /\ ScreenLoaded
    /\ pendingCache = {}
    /\ passes = EmptyBag
    /\ StoreAtRest

Next ==
    \/ Cardinality(UserMessages) < MaxSends /\ \E t \in DateNowValues : SendMessage(t)
    \/ \E snd \in BagToSet(sends), res \in InsertResults : SendUserInsertReturns(snd, res)
    \/ \E snd \in BagToSet(sends), res \in SessionResults : SendSessionReturns(snd, res)
    \/ \E snd \in BagToSet(sends), resp \in RelayResults : SendRelayReturns(snd, resp)
    \/ \E snd \in BagToSet(sends), res \in InsertResults :
          SendAssistantInsertReturns(snd, res)
    \/ \E text \in Inputs : SetInput(text)
    \/ \E i \in 1..Len(messages) : RetryPressed(i)
    \/ \E ch \in BagToSet(chains) : RetrySleepReturns(ch)
    \/ \E ch \in BagToSet(chains) :
          \E outcome \in RetryOutcomes(ch.message) : RetryAttemptSettles(ch, outcome)

Spec == Init /\ [][Next]_vars

-----------------------------------------------------------------------------
(* One retry chain at a time, every call and every sleep of which returns *)

\* the steps of the retry chains in flight
ChainSteps ==
    \/ \E ch \in BagToSet(chains) : RetrySleepReturns(ch)
    \/ \E ch \in BagToSet(chains) :
          \E outcome \in RetryOutcomes(ch.message) : RetryAttemptSettles(ch, outcome)

\* as Next, but Retry is pressed only while no chain is in flight, so that the
\* chain in flight is the invocation that was made last
SoloRetryNext ==
    \/ Cardinality(UserMessages) < MaxSends /\ \E t \in DateNowValues : SendMessage(t)
    \/ \E snd \in BagToSet(sends), res \in InsertResults : SendUserInsertReturns(snd, res)
    \/ \E snd \in BagToSet(sends), res \in SessionResults : SendSessionReturns(snd, res)
    \/ \E snd \in BagToSet(sends), resp \in RelayResults : SendRelayReturns(snd, resp)
    \/ \E snd \in BagToSet(sends), res \in InsertResults :
          SendAssistantInsertReturns(snd, res)
    \/ \E text \in Inputs : SetInput(text)
    \/ chains = EmptyBag /\ \E i \in 1..Len(messages) : RetryPressed(i)
    \/ ChainSteps

\* setTimeout fires and every remote call answers or fails (index.tsx:682-726)
RetryLiveSpec == Init /\ [][SoloRetryNext]_vars /\ WF_vars(ChainSteps)

-----------------------------------------------------------------------------
(* Overlap: one more send than under Spec, so that a send can start while    *)
(* another is in flight, which takes a failed send, a retry chain of its     *)
(* message and two further sends                                             *)

MaxOverlappingSends == MaxSends + 1

\* the clock has advanced between two presses of the send button
OverlapNext ==
    \/ /\ Cardinality(UserMessages) < MaxOverlappingSends
       /\ SendMessage(now + 1)
    \/ \E snd \in BagToSet(sends), res \in InsertResults : SendUserInsertReturns(snd, res)
    \/ \E snd \in BagToSet(sends), res \in SessionResults : SendSessionReturns(snd, res)
    \/ \E snd \in BagToSet(sends), resp \in RelayResults : SendRelayReturns(snd, resp)
    \/ \E snd \in BagToSet(sends), res \in InsertResults :
          SendAssistantInsertReturns(snd, res)
    \/ \E text \in Inputs : SetInput(text)
    \/ chains = EmptyBag /\ \E i \in 1..Len(messages) : RetryPressed(i)
    \/ ChainSteps

OverlapSpec == Init /\ [][OverlapNext]_vars

-----------------------------------------------------------------------------
(* Same tick: the sends read one value of the clock, as calls of Date.now()  *)
(* within a millisecond do, so that their messages get the same id           *)

SameTickNext ==
    \/ Cardinality(UserMessages) < MaxOverlappingSends /\ SendMessage(now)
    \/ \E snd \in BagToSet(sends), res \in InsertResults : SendUserInsertReturns(snd, res)
    \/ \E snd \in BagToSet(sends), res \in SessionResults : SendSessionReturns(snd, res)
    \/ \E snd \in BagToSet(sends), resp \in RelayResults : SendRelayReturns(snd, resp)
    \/ \E snd \in BagToSet(sends), res \in InsertResults :
          SendAssistantInsertReturns(snd, res)
    \/ \E text \in Inputs : SetInput(text)
    \/ chains = EmptyBag /\ \E i \in 1..Len(messages) : RetryPressed(i)
    \/ ChainSteps

SameTickSpec == Init /\ [][SameTickNext]_vars

-----------------------------------------------------------------------------
(* Resync: delivery together with the network store and syncPendingMessages, *)
(* with messages that another writer may have queued in the durable cache    *)

\* the mount run of the effect of index.tsx:747-751 has started the first pass
ResyncInit ==
    /\ ScreenLoaded
    /\ pendingCache \in SUBSET QueuedPool
    /\ passes = One(NewPass("mount"))
    /\ StoreAtRest

ResyncNext ==
    \/ Next
    \/ \E pass \in BagToSet(passes) : SyncKeysReturn(pass)
    \/ \E pass \in BagToSet(passes), m \in QueuedPool : SyncItemReturns(pass, PendingKey(m))
    \/ \E pass \in BagToSet(passes) : SyncRemoveReturns(pass)
    \/ \E c \in ConnectedValues : NetInfoEvent(c)

ResyncSpec == ResyncInit /\ [][ResyncNext]_vars

-----------------------------------------------------------------------------
(* The network store with its subscriber, the resync of the screen, and the  *)
(* cleanup that the module exports                                           *)

NetNext ==
    \/ \E c \in ConnectedValues : NetInfoEvent(c)
    \/ Cleanup
    \/ \E pass \in BagToSet(passes) : SyncKeysReturn(pass)
    \/ \E pass \in BagToSet(passes), m \in QueuedPool : SyncItemReturns(pass, PendingKey(m))
    \/ \E pass \in BagToSet(passes) : SyncRemoveReturns(pass)
    \/ ChainSteps

NetSpec == ResyncInit /\ [][NetNext]_vars

-----------------------------------------------------------------------------
(* The backoff policy on its own: getBackoffDelay applied to a pair of attempts *)

BackoffInit ==
    /\ currentThread = Null
    /\ messages = <<>>
    /\ error = Null
    /\ input = <<>>
    /\ isLoading = FALSE
    /\ now = 1
    /\ sends = EmptyBag
    /\ chains = EmptyBag
    /\ passes = EmptyBag
    /\ pendingCache = {}
    /\ isOnline = TRUE
    /\ subscribed = TRUE
    /\ attemptIn \in (0..MaxAttemptArg) \X (0..MaxAttemptArg)
    /\ delayOut = <<>>
    /\ StoreAtRest

ComputeDelays ==
    /\ delayOut = <<>>
    /\ delayOut' = <<getBackoffDelay(attemptIn[1]), getBackoffDelay(attemptIn[2])>>
    /\ UNCHANGED <<screenVars, attemptIn, storeVars>>

BackoffNext == ComputeDelays

BackoffSpec == BackoffInit /\ [][BackoffNext]_vars

-----------------------------------------------------------------------------
(* The messages store on its own, whatever earlier runs have left in the cache *)

\* the screen idle, the store as created; a thread's snapshot is absent or is
\* what an earlier syncMessages of that thread has written
StoreInit ==
    /\ ScreenLoaded
    /\ currentThread = Some(Thread1)
    /\ pendingCache = {}
    /\ passes = EmptyBag
    /\ store = StoreCreated
    /\ syncs = EmptyBag
    /\ snapshots \in [CacheKeys -> { Null } \cup
                          { Some(JsonStringify(list)) :
                              list \in UNION { RemoteLists(t) : t \in ThreadIds } }]
    /\ snapshots[FixedKey] = Null
    /\ \A t \in ThreadIds :
          snapshots[SnapshotKey(t)] # Null =>
             JsonParse(snapshots[SnapshotKey(t)][1]) \in RemoteLists(t)

StoreNext ==
    \/ \E list \in RemoteLists("t1"), accepted \in BOOLEAN : StoreSetMessages(list, accepted)
    \/ \E message \in Drafts : AddMessage(message)
    \/ \E threadId \in ThreadIds : SyncMessages(threadId)
    \/ \E sy \in BagToSet(syncs) : SyncCacheReturns(sy)
    \/ \E sy \in BagToSet(syncs), accepted \in BOOLEAN :
          \E res \in SelectResults(sy.threadId) : SyncRemoteReturns(sy, res, accepted)

StoreSpec == StoreInit /\ [][StoreNext]_vars

-----------------------------------------------------------------------------
(* Switch: the screen goes from one conversation to another, and its effect  *)
(* starts a sync while the sync of the conversation before is in flight      *)

Thread2 == [id |-> "t2", title |-> "Other Chat"]

MaxOverlappingSyncs == MaxSyncs + 1

\* index.tsx:210-215: currentThread has changed to thread; the effect calls
\* syncMessages(thread.id), which awaits getItem (messagesStore.ts:44-47)
SyncEffect(thread) ==
    /\ thread \in { Thread1, Thread2 }
    /\ currentThread # Some(thread)
    /\ BagCardinality(syncs) < MaxOverlappingSyncs
    /\ currentThread' = Some(thread)
    /\ syncs' = syncs (+) One([pc |-> "getItem", threadId |-> thread.id])
    /\ UNCHANGED <<messages, input, isLoading, error, now, sends, chains, passes,
                   pendingCache, isOnline, subscribed, attemptIn, delayOut,
                   store, snapshots>>

SwitchNext ==
    \/ \E thread \in { Thread1, Thread2 } : SyncEffect(thread)
    \/ \E sy \in BagToSet(syncs) : SyncCacheReturns(sy)
    \/ \E sy \in BagToSet(syncs), accepted \in BOOLEAN :
          \E res \in SelectResults(sy.threadId) : SyncRemoteReturns(sy, res, accepted)

SwitchSpec == StoreInit /\ [][SwitchNext]_vars

-----------------------------------------------------------------------------
(* Properties of sendMessage *)

\* the messages of a list that carry the id
WithId(list, id) == { i \in 1..Len(list) : list[i].id = id }

\* snd takes a step that keeps it in flight
SendStaysInFlight(snd) ==
    \/ \E res \in InsertResults : ~res.failed /\ SendUserInsertReturns(snd, res)
    \/ \E res \in SessionResults : res # Null /\ SendSessionReturns(snd, res)
    \/ \E resp \in RelayResults :
          SendRelayOutcome(resp).thrown = Null /\ SendRelayReturns(snd, resp)

\* snd completes without a failure
SendSucceeds(snd) ==
    \E res \in InsertResults : ~res.failed /\ SendAssistantInsertReturns(snd, res)

\* one of the steps of snd fails: the insert of the user message, the session,
\* the relay (no answer, a non-2xx answer, a 2xx answer without
\* choices[0].message.content), the insert of the assistant message
SendFails(snd) ==
    \/ \E res \in InsertResults : res.failed /\ SendUserInsertReturns(snd, res)
    \/ SendSessionReturns(snd, Null)
    \/ \E resp \in RelayResults :
          SendRelayOutcome(resp).thrown # Null /\ SendRelayReturns(snd, resp)
    \/ \E res \in InsertResults : res.failed /\ SendAssistantInsertReturns(snd, res)

\* C1: a successful sendMessage appends exactly two messages to the list, the
\* user message and then the assistant reply that carries the relay's content,
\* and leaves isLoading false when it completes: the invocation appends the
\* user message with the trimmed input, the steps that keep it in flight append
\* nothing and keep the relay's content, and its completion appends one
\* assistant message with that content, after the user message, and ends with
\* isLoading false.
C1_SuccessfulSendAppendsTwo ==
    [][ /\ \A t \in DateNowValues :
             (SendGuard /\ SendMessage(t)) =>
                /\ Len(messages') = Len(messages) + 1
                /\ SubSeq(messages', 1, Len(messages)) = messages
                /\ messages'[Len(messages')].role = "user"
                /\ messages'[Len(messages')].content = Text(Trim(input))
                /\ BagIn(SendAtFirstAwait(messages'[Len(messages')], currentThread[1]),
                         sends')
        /\ \A snd \in BagToSet(sends) :
             /\ SendStaysInFlight(snd) => messages' = messages
             /\ \A resp \in RelayResults :
                   (SendRelayOutcome(resp).thrown = Null /\ SendRelayReturns(snd, resp)) =>
                      \E next \in BagToSet(sends') :
                         /\ next.newMessage = snd.newMessage
                         /\ next.reply = resp.body.value.choices[1].message.content
             /\ SendSucceeds(snd) =>
                   /\ Len(messages') = Len(messages) + 1
                   /\ SubSeq(messages', 1, Len(messages)) = messages
                   /\ messages'[Len(messages')].role = "assistant"
                   /\ messages'[Len(messages')].content = snd.reply
                   /\ \E i \in 1..Len(messages) :
                         /\ messages[i].role = "user"
                         /\ messages[i].id = snd.newMessage.id
                         /\ messages[i].content = snd.newMessage.content
                   /\ ~isLoading'
                   /\ BagCardinality(sends') = BagCardinality(sends) - 1
      ]_vars

\* a send has completed: the user message is followed by the relay's reply
C1_Witness ==
    /\ ~isLoading
    /\ sends = EmptyBag
    /\ \E i, j \in 1..Len(messages) :
          /\ i < j
          /\ messages[i].role = "user" /\ messages[i].content = "a"
          /\ ~Has(messages[i], "failed")
          /\ messages[j].role = "assistant" /\ messages[j].content = "reply"

\* C2: if any step of sendMessage fails, the originating user message ends
\* with failed = true and pending = false, no assistant message is appended,
\* one error string is set and isLoading ends false.
C2_FailedSendMarksMessage ==
    [][ \A snd \in BagToSet(sends) :
           SendFails(snd) =>
              /\ Len(messages') = Len(messages)
              /\ \A i \in 1..Len(messages) : messages'[i].role = messages[i].role
              /\ WithId(messages', snd.newMessage.id) # {}
              /\ \A i \in WithId(messages', snd.newMessage.id) :
                    /\ Has(messages'[i], "failed") /\ messages'[i].failed
                    /\ Has(messages'[i], "pending") /\ ~messages'[i].pending
              /\ error' # Null
              /\ error'[1] \in STRING
              /\ ~isLoading'
              /\ ~BagIn(snd, sends') \/ CopiesIn(snd, sends') < CopiesIn(snd, sends)
      ]_vars

\* a send has failed: its message is marked, an error is shown
C2_Witness ==
    /\ ~isLoading
    /\ error # Null
    /\ sends = EmptyBag
    /\ \E i \in 1..Len(messages) :
          /\ messages[i].role = "user"
          /\ Truthy(messages[i], "failed")
          /\ ~Has(messages[i], "retryCount")
    /\ \A i \in 1..Len(messages) : messages[i].role = "assistant" => messages[i].id = "welcome"

-----------------------------------------------------------------------------
(* Properties of retryMessage *)

\* C3: when every attempt of a retry chain fails, the chain makes the attempts
\* 0 to 3 and never a fifth: a chain in flight is at one of the attempts 0..3,
\* a failure of an attempt before 3 leads to the next attempt and leaves the
\* list alone, and the failure of attempt 3 ends the chain with the message at
\* failed = true, pending = false, retryCount = 4.
C3_RetryStopsAfterFour ==
    [][ /\ \A ch \in BagToSet(chains') : ch.attempt \in 0..3
        /\ \A ch \in BagToSet(chains) :
             \A outcome \in RetryOutcomes(ch.message) :
                (outcome.threw /\ RetryAttemptSettles(ch, outcome)) =>
                   IF ch.attempt < 3
                   THEN /\ messages' = messages
                        /\ \E next \in BagToSet(chains') :
                              /\ next.message = ch.message
                              /\ next.attempt = ch.attempt + 1
                              /\ next.pc = "sleep"
                   ELSE /\ BagCardinality(chains') = BagCardinality(chains) - 1
                        /\ Len(messages') = Len(messages)
                        /\ \A i \in WithId(messages', ch.message.id) :
                              /\ Has(messages'[i], "failed") /\ messages'[i].failed
                              /\ Has(messages'[i], "pending") /\ ~messages'[i].pending
                              /\ Has(messages'[i], "retryCount")
                              /\ messages'[i].retryCount = 4
      ]_vars

\* a chain has run out of attempts
C3_Witness ==
    /\ chains = EmptyBag
    /\ error = Some("Message failed after multiple attempts")
    /\ \E i \in 1..Len(messages) :
          /\ Truthy(messages[i], "failed")
          /\ Has(messages[i], "retryCount") /\ messages[i].retryCount = 4

\* C4: if attempt k, 0 <= k <= 3, of a retry chain is the first that succeeds,
\* the message ends with failed = false, pending = false and retryCount = k.
C4_RetryDeliveredAtAttempt ==
    [][ \A ch \in BagToSet(chains) :
           \A outcome \in RetryOutcomes(ch.message) :
              (~outcome.threw /\ RetryAttemptSettles(ch, outcome)) =>
                 /\ ch.attempt \in 0..3
                 /\ BagCardinality(chains') = BagCardinality(chains) - 1
                 /\ Len(messages') = Len(messages)
                 /\ WithId(messages', ch.message.id) # {}
                 /\ \A i \in WithId(messages', ch.message.id) :
                       /\ Has(messages'[i], "failed") /\ ~messages'[i].failed
                       /\ Has(messages'[i], "pending") /\ ~messages'[i].pending
                       /\ Has(messages'[i], "retryCount")
                       /\ messages'[i].retryCount = ch.attempt
      ]_vars

\* a chain has delivered at its third attempt, after two failures
C4_Witness ==
    /\ chains = EmptyBag
    /\ \E i \in 1..Len(messages) :
          /\ Has(messages[i], "failed") /\ ~messages[i].failed
          /\ Has(messages[i], "retryCount") /\ messages[i].retryCount = 2

\* C5: for every attempt in 0..10 getBackoffDelay(attempt) is
\* min(2000 * 2^attempt, 30000), it does not decrease with the attempt, and it
\* is 30000 from attempt 4 on.
C5_BackoffDelay ==
    delayOut # <<>> =>
        /\ \A k \in 1..2 :
              /\ attemptIn[k] \in 0..10 =>
                    delayOut[k] = Min(2000 * 2^attemptIn[k], 30000)
              /\ attemptIn[k] >= 4 => delayOut[k] = 30000
        /\ attemptIn[1] <= attemptIn[2] => delayOut[1] <= delayOut[2]

\* the delays of the last attempt below the cap and of the first at the cap
C5_Witness == attemptIn = <<3, 4>> /\ delayOut = <<16000, 30000>>

-----------------------------------------------------------------------------
(* Properties of the resync *)

\* a pass ends at the return of getAllKeys, having invoked retryMessage for nothing
PassEndsEmptyHanded(pass) ==
    /\ SyncKeysReturn(pass)
    /\ BagCardinality(passes') < BagCardinality(passes)

\* C7: each time connectivity changes from offline to online while a message
\* of the list is failed, retryMessage is invoked for that message: the pass
\* that the change started does not end, having invoked retryMessage for
\* nothing, while the list holds a failed message that no chain is retrying.
C7_FlipRetriesFailed ==
    [][ \A pass \in BagToSet(passes) :
           (pass.cause = "online" /\ PassEndsEmptyHanded(pass)) =>
              \A i \in 1..Len(messages) :
                 Truthy(messages[i], "failed") =>
                    \E ch \in BagToSet(chains') : ch.message.id = messages[i].id
      ]_vars

-----------------------------------------------------------------------------
(* Properties of the send guard, the errors and the remote calls *)

\* C6: sendMessage invoked with empty or whitespace-only input is a no-op: no
\* message is appended, isLoading and error are unchanged, and no remote write
\* or relay call is issued (no invocation comes in flight).
C6_BlankSendIsNoOp ==
    [][ \A t \in DateNowValues :
           (Trim(input) = <<>> /\ SendMessage(t)) =>
              /\ messages' = messages
              /\ isLoading' = isLoading
              /\ error' = error
              /\ sends' = sends
              /\ chains' = chains
      ]_vars

\* whitespace is typed on a screen that would accept a send
C6_Witness ==
    /\ input = <<" ">>
    /\ ~isLoading
    /\ currentThread # Null
    /\ sends = EmptyBag

\* C8: in every reachable state no message of the list has pending = true and
\* failed = true at the same time.
C8_NeverPendingAndFailed ==
    \A i \in 1..Len(messages) :
        ~(Truthy(messages[i], "pending") /\ Truthy(messages[i], "failed"))

\* a message is failed after a send and a retry chain, and not pending
C8_Witness ==
    \E i \in 1..Len(messages) :
        /\ Truthy(messages[i], "failed")
        /\ Has(messages[i], "pending") /\ ~messages[i].pending
        /\ Has(messages[i], "retryCount")

\* the relay answers snd with a non-2xx status and a JSON body with a message field
RelayErrorWithMessage(snd, resp) ==
    /\ ~resp.threw
    /\ ~resp.ok
    /\ resp.body.json
    /\ Has(resp.body.value, "message")
    /\ SendRelayReturns(snd, resp)

\* the error shown is the body's message and the message of snd is failed
ShowsBodyMessage(snd, resp) ==
    /\ error' = Some(resp.body.value.message)
    /\ \A i \in WithId(messages', snd.newMessage.id) : Truthy(messages'[i], "failed")

\* C9 as stated: when the relay answers a send with a non-2xx status and a body
\* that contains a message field, the error shown equals that message and the
\* originating message ends failed.
C9_AsStated ==
    [][ \A snd \in BagToSet(sends) : \A resp \in RelayResults :
           RelayErrorWithMessage(snd, resp) => ShowsBodyMessage(snd, resp)
      ]_vars

\* C9: when the relay answers a send with a non-2xx status and a body whose
\* message field is a non-empty string, the error shown equals that message
\* and the originating message ends failed; with an empty message the error is
\* the text built from the status.
C9_NonEmptyBodyMessage ==
    [][ \A snd \in BagToSet(sends) : \A resp \in RelayResults :
           RelayErrorWithMessage(snd, resp) =>
              IF resp.body.value.message # ""
              THEN ShowsBodyMessage(snd, resp)
              ELSE /\ error' = Some("AI request failed with status 500")
                   /\ \A i \in WithId(messages', snd.newMessage.id) :
                         Truthy(messages'[i], "failed")
      ]_vars

\* the relay's message is shown after a failed send
C9_Witness ==
    /\ error = Some("rate limited")
    /\ \E i \in 1..Len(messages) :
          messages[i].role = "user" /\ Truthy(messages[i], "failed")

\* the remote writes and the relay calls among the calls of an invocation
RECURSIVE WritesAndRelays(_)
WritesAndRelays(calls) ==
    IF calls = <<>> THEN <<>>
    ELSE IF Head(calls).op \in { "insert", "relay" }
         THEN <<Head(calls)>> \o WritesAndRelays(Tail(calls))
         ELSE WritesAndRelays(Tail(calls))

\* C10: a successful sendMessage issues one remote insert of the user message,
\* then one relay call, then one remote insert of the assistant message, no
\* more, and creates one assistant message.
C10_SuccessfulSendCalls ==
    [][ \A snd \in BagToSet(sends) :
           SendSucceeds(snd) =>
              /\ WritesAndRelays(snd.calls) =
                    << InsertCall("user", snd.newMessage.content),
                       RelayCall,
                       InsertCall("assistant", snd.reply) >>
              /\ Cardinality({ i \in 1..Len(messages') : messages'[i].role = "assistant" })
                    = Cardinality({ i \in 1..Len(messages) : messages[i].role = "assistant" }) + 1
      ]_vars

\* a send has issued its three calls and awaits the last insert
C10_Witness ==
    \E snd \in BagToSet(sends) :
        /\ snd.pc = "insertAssistant"
        /\ Len(WritesAndRelays(snd.calls)) = 3

-----------------------------------------------------------------------------
(* Properties of the optimistic update and of the retry chain's end *)

\* C11: sendMessage makes the new user message visible in the list before any
\* remote write or relay call of that send is issued or completes: whenever a
\* send is in flight, from its first call on, its message is in the list.
C11_ShownBeforeAnyCall ==
    \A snd \in BagToSet(sends) :
        \E i \in 1..Len(messages) :
            /\ messages[i].id = snd.newMessage.id
            /\ messages[i].content = snd.newMessage.content
            /\ messages[i].role = "user"

\* a send awaits its first call, the insert of the user message, and the
\* message is the last of the list
C11_Witness ==
    \E snd \in BagToSet(sends) :
        /\ snd.pc = "insertUser"
        /\ Len(snd.calls) = 1
        /\ messages[Len(messages)] = snd.newMessage

\* the relay calls among the calls of an attempt
RelayCallsOf(outcome) ==
    Cardinality({ k \in 1..Len(outcome.calls) : outcome.calls[k] = RelayCall })

\* ch ends, delivered or out of attempts
ChainEnds(ch) ==
    /\ \E outcome \in RetryOutcomes(ch.message) : RetryAttemptSettles(ch, outcome)
    /\ BagCardinality(chains') < BagCardinality(chains)

\* C12: if every remote call and every backoff sleep returns, each retryMessage
\* invocation finishes, after at most 4 relay calls, with the message
\* delivered (failed = false) or terminally failed (failed = true) and with
\* isLoading false once the chain has ended: a chain in flight leads to no
\* chain in flight and isLoading false; a chain is at one of the attempts 0..3
\* and an attempt makes at most one relay call; the step that ends the chain
\* leaves failed defined on the message and isLoading false.
C12_RetryChainFinishes ==
    /\ (chains # EmptyBag) ~> (chains = EmptyBag /\ ~isLoading)
    /\ [][ \A ch \in BagToSet(chains) :
              /\ ch.attempt \in 0..3
              /\ \A outcome \in RetryOutcomes(ch.message) : RelayCallsOf(outcome) <= 1
              /\ ChainEnds(ch) =>
                    /\ ~isLoading'
                    /\ \A i \in WithId(messages', ch.message.id) :
                          /\ Has(messages'[i], "failed")
                          /\ Has(messages'[i], "retryCount")
                          /\ messages'[i].retryCount <= 4
         ]_vars

\* a chain has ended at its second attempt, after one backoff sleep
C12_Witness ==
    /\ chains = EmptyBag
    /\ ~isLoading
    /\ \E i \in 1..Len(messages) :
          /\ Has(messages[i], "failed") /\ ~messages[i].failed
          /\ Has(messages[i], "retryCount") /\ messages[i].retryCount = 1

-----------------------------------------------------------------------------
(* Properties of the messages store *)

\* the key under which the snapshot of a thread is kept
KeyOfThread(threadId) == "cached_messages_" \o threadId

\* C13: syncMessages(threadId) first sets the store's messages to the cached
\* snapshot of threadId when one exists; then, when the remote query succeeds,
\* it sets messages to the remote result and writes the result over the
\* snapshot of threadId (the snapshot is the result once the cache has
\* accepted the write); when the remote query fails, messages and the cache
\* stay as they are.
C13_SyncRestoresThenReconciles ==
    [][ \A sy \in BagToSet(syncs) :
           LET key == KeyOfThread(sy.threadId)
           IN  /\ SyncCacheReturns(sy) =>
                     /\ sy.pc = "getItem"
                     /\ snapshots' = snapshots
                     /\ store'.messages = IF snapshots[key] = Null
                                          THEN store.messages
                                          ELSE snapshots[key][1].of
                     /\ BagIn([sy EXCEPT !.pc = "select"], syncs')
               /\ \A res \in SelectResults(sy.threadId), accepted \in BOOLEAN :
                     SyncRemoteReturns(sy, res, accepted) =>
                        /\ sy.pc = "select"
                        /\ IF res.failed
                           THEN store' = store /\ snapshots' = snapshots
                           ELSE /\ store'.messages = res.data
                                /\ accepted => snapshots'[key] = Some(JsonStringify(res.data))
                                /\ ~accepted => snapshots' = snapshots
                                /\ \A other \in CacheKeys \ {key} :
                                      snapshots'[other] = snapshots[other]
      ]_vars

\* a sync has restored the snapshot of its thread and awaits the remote query
C13_Witness ==
    \E sy \in BagToSet(syncs) :
        /\ sy.pc = "select"
        /\ snapshots[KeyOfThread(sy.threadId)] # Null
        /\ store.messages = snapshots[KeyOfThread(sy.threadId)][1].of
        /\ Len(store.messages) > 0

-----------------------------------------------------------------------------
(* Properties of the network store *)

\* C14: isOnline is true initially and stays true until the first
\* notification; after each notification it is the notification's connected
\* value, an unknown (null) value counting as online; after cleanup() no
\* notification changes it, and nothing else ever changes it.
C14_OnlineFollowsNotifications ==
    /\ isOnline = TRUE
    /\ [][ /\ \A c \in ConnectedValues :
                NetInfoEvent(c) =>
                   /\ subscribed
                   /\ isOnline' = (IF c = Null THEN TRUE ELSE c[1])
           /\ isOnline' # isOnline => \E c \in ConnectedValues : NetInfoEvent(c)
           /\ ~subscribed => (isOnline' = isOnline /\ ~subscribed')
           /\ Cleanup => (isOnline' = isOnline /\ ~subscribed')
         ]_vars

\* the store is offline after cleanup(): the last notification stands
C14_Witness == ~subscribed /\ ~isOnline

-----------------------------------------------------------------------------
(* Properties of sends that follow or overlap each other *)

\* C15: user messages appear in the list in the order in which their
\* sendMessage calls were invoked, and the assistant reply of an exchange is
\* appended only after that exchange's user message: no step moves or removes
\* a message, an invocation puts its message after every message of the list,
\* and a completion puts the reply after every message of the list, the user
\* message of its exchange among them.
C15_ListFollowsInvocations ==
    [][ /\ Len(messages') >= Len(messages)
        /\ \A i \in 1..Len(messages) :
              /\ messages'[i].id = messages[i].id
              /\ messages'[i].role = messages[i].role
              /\ messages'[i].content = messages[i].content
              /\ messages'[i].created_at = messages[i].created_at
        /\ \A t \in DateNowValues :
              (SendGuard /\ SendMessage(t)) =>
                 /\ Len(messages') = Len(messages) + 1
                 /\ messages'[Len(messages')].role = "user"
                 /\ messages'[Len(messages')].created_at = t
                 /\ \A i \in 1..Len(messages) : messages[i].created_at <= t
        /\ \A snd \in BagToSet(sends) :
              SendSucceeds(snd) =>
                 /\ Len(messages') = Len(messages) + 1
                 /\ messages'[Len(messages')].role = "assistant"
                 /\ messages'[Len(messages')].content = snd.reply
                 /\ \E i \in 1..Len(messages) :
                       /\ messages'[i].role = "user"
                       /\ messages'[i].id = snd.newMessage.id
                       /\ messages'[i].created_at = snd.newMessage.created_at
      ]_vars

\* two exchanges: a user message, its reply, then the user message sent next
C15_Witness ==
    \E i, j, k \in 1..Len(messages) :
        /\ i < j /\ j < k
        /\ messages[i].role = "user"
        /\ messages[j].role = "assistant" /\ messages[j].content = "reply"
        /\ messages[k].role = "user"
        /\ messages[i].created_at <= messages[k].created_at

\* C16: at most one sendMessage delivery is in flight at any time: while a
\* send is in flight isLoading is true, so that every other invocation returns
\* without effect, also when retry chains of other messages start, sleep or
\* finish meanwhile.
C16_OneSendAtATime ==
    /\ sends # EmptyBag => isLoading
    /\ BagCardinality(sends) <= 1

-----------------------------------------------------------------------------
(* Properties of the relay request *)

\* the messages of a list as the relay request spells them
OnTheWire(list) == [i \in 1..Len(list) |-> [content |-> list[i].content, role |-> list[i].role]]

\* the sends that have issued their relay request
SendsWithRequest == { snd \in BagToSet(sends) : snd.request # Null }

\* the positions of the list at which the message of snd can stand
PlacesOf(snd) ==
    { n \in 1..Len(messages) :
        /\ messages[n].id = snd.newMessage.id
        /\ messages[n].role = "user"
        /\ messages[n].content = snd.newMessage.content }

-----------------------------------------------------------------------------
(* Properties of a retry chain's reply, of pending and of the error *)

\* the inserts of an assistant message among the calls of an attempt
AssistantInsertsOf(outcome) ==
    { k \in 1..Len(outcome.calls) :
        outcome.calls[k].op = "insert" /\ outcome.calls[k].role = "assistant" }

\* C18: when a retry of a failed user message succeeds, the relay's reply is
\* persisted as one assistant message and exactly one assistant message is
\* appended to the list: the attempt that delivers makes one insert with the
\* role assistant, and its step appends one assistant message.
C18_RetryAppendsReply ==
    [][ \A ch \in BagToSet(chains) :
           \A outcome \in RetryOutcomes(ch.message) :
              (~outcome.threw /\ RetryAttemptSettles(ch, outcome)) =>
                 /\ Cardinality(AssistantInsertsOf(outcome)) = 1
                 /\ Len(messages') = Len(messages) + 1
                 /\ messages'[Len(messages')].role = "assistant"
      ]_vars

\* a delivery attempt for the message with this id is in flight: its send has
\* not completed, or a chain is at the remote calls of an attempt
AttemptInFlightFor(id) ==
    \/ \E snd \in BagToSet(sends) : snd.newMessage.id = id
    \/ \E ch \in BagToSet(chains) : ch.pc = "attempt" /\ ch.message.id = id

\* C19: for every user message of the list, pending is true exactly while a
\* delivery attempt for it is in flight (from its append until its send
\* completes, and during each retry attempt), and false otherwise.
C19_PendingWhileInFlight ==
    \A i \in 1..Len(messages) :
        messages[i].role = "user" =>
            (Truthy(messages[i], "pending") <=> AttemptInFlightFor(messages[i].id))

\* the error of a chain that is out of attempts
TerminalError == Some("Message failed after multiple attempts")

\* the attempt of ch fails and no attempt is left
ChainGivesUp(ch) ==
    /\ ch.attempt = 3
    /\ \E outcome \in RetryOutcomes(ch.message) :
          outcome.threw /\ RetryAttemptSettles(ch, outcome)

\* what a chain does to the error but for the end of a delivered chain (a
\* step of a chain changes chains and starts from its attempt):
\* Retry clears it, a failed attempt with attempts left leaves it null and the
\* chain in flight, the failed attempt 3 sets the terminal error
ChainErrorSteps ==
    /\ (chains' # chains /\ error' # Null) =>
          \A i \in 1..Len(messages) : ~RetryPressed(i)
    /\ \A ch \in BagToSet(chains) :
          LET kept == IF ch.attempt < 3
                      THEN error' = Null /\ chains' # EmptyBag
                      ELSE error' = TerminalError
          IN  (chains' # chains /\ ch.pc = "attempt" /\ ~kept) =>
                 \A outcome \in RetryOutcomes(ch.message) :
                    ~(outcome.threw /\ RetryAttemptSettles(ch, outcome))

\* ch is delivered by this step
ChainDelivers(ch) ==
    /\ ch.pc = "attempt"
    /\ chains' # chains
    /\ \E outcome \in RetryOutcomes(ch.message) :
          ~outcome.threw /\ RetryAttemptSettles(ch, outcome)

-----------------------------------------------------------------------------
(* Properties of the backoff sleeps, of the session and of retryCount *)

\* ch as it was while it slept
Asleep(ch) == [ch EXCEPT !.pc = "sleep"]

\* C21: a retry chain does not sleep before attempt 0 and sleeps exactly
\* getBackoffDelay(k) before attempt k for k = 1, 2, 3 (4000, 8000, 16000 ms);
\* the sleep precedes that attempt's remote calls, and the delays never
\* decrease along a chain: a chain at attempt 0 is at its remote calls with no
\* delay, a chain at attempt k > 0 carries the delay getBackoffDelay(k), it
\* comes to its remote calls only from its sleep, and the chain that follows a
\* failed attempt sleeps at least as long as the one before.
C21_SleepsBeforeLaterAttempts ==
    /\ [](\A ch \in BagToSet(chains) :
            /\ ch.attempt \in 0..3
            /\ ch.attempt = 0 => (ch.pc = "attempt" /\ ch.ms = 0)
            /\ ch.attempt > 0 => ch.ms = getBackoffDelay(ch.attempt)
            /\ ch.attempt = 1 => ch.ms = 4000
            /\ ch.attempt = 2 => ch.ms = 8000
            /\ ch.attempt = 3 => ch.ms = 16000)
    /\ [][ chains' # chains =>
             /\ \A ch \in BagToSet(chains') :
                   (/\ ch.attempt > 0
                    /\ ch.pc = "attempt"
                    /\ CopiesIn(ch, chains') > CopiesIn(ch, chains)) =>
                      CopiesIn(Asleep(ch), chains) > CopiesIn(Asleep(ch), chains')
             /\ \A ch \in BagToSet(chains) :
                   \A next \in BagToSet(chains') :
                      (/\ ch.pc = "attempt"
                       /\ CopiesIn(ch, chains) > CopiesIn(ch, chains')
                       /\ next.attempt = ch.attempt + 1
                       /\ CopiesIn(next, chains') > CopiesIn(next, chains)) =>
                         (next.pc = "sleep" /\ next.ms >= ch.ms /\ next.ms > 0)
         ]_vars

\* a chain is at the remote calls of attempt 3 after its sleep of 16000 ms
C21_Witness ==
    \E ch \in BagToSet(chains) :
        ch.attempt = 3 /\ ch.pc = "attempt" /\ ch.ms = 16000

\* the outcomes of an attempt whose getSession finds no session
NoSessionOutcomes(message) ==
    { RetryTryBlock(message, Null, resp, ires) :
        resp \in RelayResults, ires \in InsertResults }

\* C22: when no active session exists at the time a send or a retry attempt
\* needs one, the failure is not retried: the step at which getSession finds
\* no session leaves no send and no chain in flight for that message.
C22_NoSessionIsNotRetried ==
    [][ /\ \A snd \in BagToSet(sends) :
              SendSessionReturns(snd, Null) =>
                 /\ \A other \in BagToSet(sends') :
                       other.newMessage.id # snd.newMessage.id
                 /\ \A ch \in BagToSet(chains') : ch.message.id # snd.newMessage.id
        /\ \A ch \in BagToSet(chains) :
              (/\ ch.pc = "attempt"
               /\ chains' # chains
               /\ \E outcome \in NoSessionOutcomes(ch.message) :
                     RetryAttemptSettles(ch, outcome)) =>
                 \A next \in BagToSet(chains') : next.message.id # ch.message.id
      ]_vars

\* C23: whenever a message of the list has failed = true, its retryCount is
\* defined and is the number of attempts made when it became failed, which is
\* at least one, also for a message that failed on its initial send.
C23_FailedHasRetryCount ==
    \A i \in 1..Len(messages) :
        Truthy(messages[i], "failed") =>
            /\ Has(messages[i], "retryCount")
            /\ messages[i].retryCount >= 1

-----------------------------------------------------------------------------
(* Properties of the messages store *)

\* a is b with some of its elements left out
RECURSIVE IsSubSeq(_, _)
IsSubSeq(a, b) ==
    IF a = <<>> THEN TRUE
    ELSE IF b = <<>> THEN FALSE
    ELSE IF Head(a) = Head(b) THEN IsSubSeq(Tail(a), Tail(b))
    ELSE IsSubSeq(a, Tail(b))

\* m came to the store by addMessage
IsDraft(m) == m \in Drafts

\* sy takes a step: its getItem or its select returns
SyncStep(sy) ==
    \/ SyncCacheReturns(sy)
    \/ \E res \in SelectResults(sy.threadId), accepted \in BOOLEAN :
          SyncRemoteReturns(sy, res, accepted)

\* C24: a message added to the store by addMessage is still in the store's
\* messages, at the same relative position, after a later syncMessages of the
\* same conversation: no step of a sync takes a message of its conversation
\* that addMessage added out of the list or changes the order of such messages.
C24_AddedMessageSurvivesSync ==
    [][ \A sy \in BagToSet(syncs) :
           LET Added(m) == IsDraft(m) /\ m.thread_id = sy.threadId
           IN  SyncStep(sy) =>
                  IsSubSeq(SelectSeq(store.messages, Added), store'.messages)
      ]_vars

\* the conversations of the messages of a list
ThreadsOf(list) == { list[i].thread_id : i \in 1..Len(list) }

\* C25: every write the store makes to the durable cache (by setMessages and
\* by syncMessages) goes under the key derived from the id of the conversation
\* the messages belong to, the key syncMessages reads: an entry of the cache
\* that a step changes is the entry of one conversation's key, and it holds
\* messages of that conversation only.
C25_WritesUnderConversationKey ==
    [][ \A key \in CacheKeys :
           snapshots'[key] # snapshots[key] =>
              /\ snapshots'[key] # Null
              /\ \E threadId \in ThreadIds :
                    /\ key = KeyOfThread(threadId)
                    /\ ThreadsOf(snapshots'[key][1].of) \subseteq {threadId}
      ]_vars

\* C26: a failing durable-cache write in setMessages or syncMessages is
\* absorbed: the store's messages still take the new value (the given list,
\* or the remote result), the cache stays as it is, the call completes (the
\* sync is no longer in flight) and no error is set.
C26_FailedCacheWriteAbsorbed ==
    [][ /\ \A list \in RemoteLists("t1") :
              StoreSetMessages(list, FALSE) =>
                 /\ store'.messages = list
                 /\ store'.pendingMessages = store.pendingMessages
                 /\ snapshots' = snapshots
                 /\ error' = error
        /\ \A sy \in BagToSet(syncs) :
              \A res \in SelectResults(sy.threadId) :
                 (~res.failed /\ SyncRemoteReturns(sy, res, FALSE)) =>
                    /\ store'.messages = res.data
                    /\ snapshots' = snapshots
                    /\ syncs' = Without(syncs, sy)
                    /\ error' = error
      ]_vars

\* the store holds a list of the first conversation and the cache holds
\* nothing: every write of the list was rejected
C26_Witness ==
    /\ store.messages \in RemoteLists("t1")
    /\ \A key \in CacheKeys : snapshots[key] = Null
    /\ syncs = EmptyBag

-----------------------------------------------------------------------------
(* The frame of the failure and retry updates *)

\* the fields of a message that no update may touch
FixedFields == { "id", "content", "role", "created_at", "thread_id" }

\* the step keeps the length and the order of the list and the fixed fields
\* of every message, and adds no field but failed, pending and retryCount
KeepsListAndFixedFields ==
    /\ Len(messages') = Len(messages)
    /\ \A i \in 1..Len(messages) :
          /\ \A k \in FixedFields :
                Has(messages[i], k) =>
                   (Has(messages'[i], k) /\ messages'[i][k] = messages[i][k])
          /\ DOMAIN messages[i] \subseteq DOMAIN messages'[i]
          /\ DOMAIN messages'[i] \ DOMAIN messages[i] \subseteq
                { "failed", "pending", "retryCount" }

\* the places of the list at which the step changes the message
ChangedPlaces == { i \in 1..Len(messages) : messages'[i] # messages[i] }

\* ch takes a step: its sleep ends or its attempt settles
ChainStep(ch) ==
    \/ RetrySleepReturns(ch)
    \/ \E outcome \in RetryOutcomes(ch.message) : RetryAttemptSettles(ch, outcome)

\* the ids of the messages for which the step is a failing send or a step of
\* a chain
UpdatedFor ==
    { snd.newMessage.id : snd \in { x \in BagToSet(sends) : SendFails(x) } } \cup
    { ch.message.id : ch \in { x \in BagToSet(chains) : ChainStep(x) } }

-----------------------------------------------------------------------------
(* Properties of isLoading during a chain, of a switch and of the resync *)

\* C28: isLoading is true for the whole duration of a retry chain, during
\* every attempt and every backoff sleep, and becomes false only when the
\* chain has ended: while a chain is in flight, isLoading is true.
C28_LoadingDuringChain == chains # EmptyBag => isLoading

\* the syncs in flight for the conversation the screen shows
CurrentSyncs ==
    { sy \in BagToSet(syncs) : currentThread # Null /\ sy.threadId = currentThread[1].id }

\* C29: if syncMessages(A) is started and then syncMessages(B), then once both
\* have completed the store's messages are B's, whatever the order in which
\* the answers arrive: once the sync of the conversation the screen has
\* switched to has completed and the store holds that conversation's messages,
\* no step of a sync started before replaces them.
C29_LastStartedSyncWins ==
    [][ (/\ currentThread # Null
         /\ CurrentSyncs = {}
         /\ store.messages \in RemoteLists(currentThread[1].id)) =>
           \A sy \in BagToSet(syncs) : SyncStep(sy) => store'.messages = store.messages
      ]_vars

\* C30: syncPendingMessages removes a queued message's entry only when the
\* retry of that message ended in success: when the chain that a pass awaits
\* ends in terminal failure, the pass does not go on to removeItem for the key
\* of that message, and the entry stays in the cache.
C30_RemovesOnlyDelivered ==
    [][ \A ch \in BagToSet(chains) :
           (/\ ch.awaiter # Null
            /\ ch.pc = "attempt"
            /\ chains' # chains
            /\ ChainGivesUp(ch)) =>
              \A pass \in BagToSet(passes') :
                 ~(pass.pc = "removeItem" /\ pass.key = ch.awaiter[1].key)
      ]_vars

====
